---- MODULE Spec2Model ----
(***************************************************************************)
(* Model of the two TrustLens tutorial notebooks (Opik and DeepEval):      *)
(* the Score Collector loop that fills metric_results, and the Metrics     *)
(* Reporting Client (submit = POST /cv/v1/metrics, fetch = GET             *)
(* /cv/v1/metrics/{report_id}).                                            *)
(*                                                                         *)
(* Python values are modelled as follows.                                  *)
(*   dict   : a sequence of <<key, value>> pairs with distinct keys, in    *)
(*            insertion order (DictSet is d[k] = v).                       *)
(*   float  : an integer number of tenths (10 is 1.0, 5 is 0.5).           *)
(*   JSON-able object : a tagged record [t, v], t in num/str/obj/null.     *)
(*   JSON text : a tagged tree [t, v] of what the text holds: numtext      *)
(*            (integer part, fraction digit), quoted, nulltext, braces     *)
(*            (member list, duplicates possible) and garbage (text that    *)
(*            is no JSON at all).                                          *)
(***************************************************************************)
EXTENDS Integers, Sequences, FiniteSets, TLC

VARIABLES
    notebook,        \* which notebook runs: "opik" or "deepeval"
    metrics,         \* the list `metrics`: evaluator class names, in order
    cpc,             \* position of the collector cell
    ci,              \* index of the loop `for m in metrics`
    metric_results,  \* the global dict metric_results
    invoked,         \* history: evaluators invoked, with what they produced
    cexc,            \* exception that left the collector cell, or "none"
    frame,           \* per caller: the client call it is executing
    AUTH_TOKEN,      \* the module-level global AUTH_TOKEN
    g_user_id,       \* the module-level global user_id
    ncalls,          \* history: client calls started
    nrequests        \* history: HTTP requests issued

vars == <<notebook, metrics, cpc, ci, metric_results, invoked, cexc,
          frame, AUTH_TOKEN, g_user_id, ncalls, nrequests>>

collectorVars == <<metrics, cpc, ci, metric_results, invoked, cexc>>
clientVars == <<frame, AUTH_TOKEN, g_user_id, ncalls, nrequests>>

----------------------------------------------------------------------------
(* Bounds of the model *)

MaxMetrics == 2
MaxCalls == 2

(* Program constants *)

HTTP_OK == 200

BASE_URL == "https://api.cognitiveview.com"
METRICS_PATH == "/cv/v1/metrics"

----------------------------------------------------------------------------
(* Python dict *)

DictKeys(d) == {d[i][1] : i \in DOMAIN d}

DictHas(d, k) == \E i \in DOMAIN d : d[i][1] = k

DictGet(d, k) == d[CHOOSE i \in DOMAIN d : d[i][1] = k][2]

\* d[k] = v : replaces the value of an existing key in place, else appends
DictSet(d, k, v) ==
    IF DictHas(d, k)
    THEN [i \in DOMAIN d |-> IF d[i][1] = k THEN <<k, v>> ELSE d[i]]
    ELSE Append(d, <<k, v>>)

\* dict == dict on dicts of plain values: same keys, same value per key
DictEq(a, b) ==
    /\ DictKeys(a) = DictKeys(b)
    /\ \A k \in DictKeys(a) : DictGet(a, k) = DictGet(b, k)

----------------------------------------------------------------------------
(* JSON-able Python objects *)

PyNone == [t |-> "null", v |-> 0]
NoValue == [t |-> "unset", v |-> 0]
JNum(n) == [t |-> "num", v |-> n]
JStr(s) == [t |-> "str", v |-> s]
JObj(d) == [t |-> "obj", v |-> d]

\* a dict of floats as a JSON-able object
FloatDict(d) == JObj([i \in DOMAIN d |-> <<d[i][1], JNum(d[i][2])>>])

\* back: the dict of floats held by an object whose members are all numbers
AsFloatDict(o) == [i \in DOMAIN o.v |-> <<o.v[i][1], o.v[i][2].v>>]

RECURSIVE JsonEq(_, _)
\* == on parsed documents: objects compare by key set and value per key
JsonEq(a, b) ==
    IF a.t # b.t THEN FALSE
    ELSE IF a.t = "obj"
    THEN /\ DictKeys(a.v) = DictKeys(b.v)
         /\ \A k \in DictKeys(a.v) : JsonEq(DictGet(a.v, k), DictGet(b.v, k))
    ELSE a.v = b.v

(* JSON text *)

Garbage(s) == [t |-> "garbage", v |-> s]

RECURSIVE JsonDumps(_)
\* json.dumps: a float is written as integer part "." fraction digit, a string
\* quoted, None as null, a dict as its members in insertion order
JsonDumps(o) ==
    CASE o.t = "num" -> [t |-> "numtext", v |-> <<o.v \div 10, o.v % 10>>]
      [] o.t = "str" -> [t |-> "quoted", v |-> o.v]
      [] o.t = "null" -> [t |-> "nulltext", v |-> 0]
      [] o.t = "obj" ->
            [t |-> "braces",
             v |-> [i \in DOMAIN o.v |-> <<o.v[i][1], JsonDumps(o.v[i][2])>>]]

RECURSIVE JsonValid(_)
\* whether json.loads accepts the text
JsonValid(x) ==
    CASE x.t = "garbage" -> FALSE
      [] x.t = "braces" -> \A i \in DOMAIN x.v : JsonValid(x.v[i][2])
      [] OTHER -> TRUE

RECURSIVE TextEq(_, _)
\* two texts are the same text
TextEq(x, y) ==
    IF x.t # y.t THEN FALSE
    ELSE IF x.t = "braces"
    THEN /\ Len(x.v) = Len(y.v)
         /\ \A i \in DOMAIN x.v :
               /\ x.v[i][1] = y.v[i][1]
               /\ TextEq(x.v[i][2], y.v[i][2])
    ELSE x.v = y.v

RECURSIVE JsonLoads(_)
RECURSIVE LoadMembers(_, _)
\* the members of an object text, left to right, into a dict: a repeated key
\* keeps its first position and takes the last value
LoadMembers(ms, acc) ==
    IF ms = <<>> THEN acc
    ELSE LoadMembers(Tail(ms), DictSet(acc, Head(ms)[1], JsonLoads(Head(ms)[2])))

\* json.loads of a valid text
JsonLoads(x) ==
    CASE x.t = "numtext" -> JNum(x.v[1] * 10 + x.v[2])
      [] x.t = "quoted" -> JStr(x.v)
      [] x.t = "nulltext" -> PyNone
      [] x.t = "braces" -> JObj(LoadMembers(x.v, <<>>))

----------------------------------------------------------------------------
(* Score Collector: the cell that fills metric_results *)

OpikClasses == {"Equals", "Moderation", "GEval"}
DeepEvalClasses == {"AnswerRelevancyMetric", "HallucinationMetric"}

ClassesOf(nb) == IF nb = "opik" THEN OpikClasses ELSE DeepEvalClasses

\* scores an evaluator may produce, in tenths
Scores == {0, 10}

\* lists of at most n evaluators of the given classes
ListsUpTo(S, n) == UNION {[1..k -> S] : k \in 0..n}

\* a class a notebook user derives from Equals (class CustomEquals(Equals))
SubclassOf == {<<"CustomEquals", "Equals">>}

\* isinstance(m, base) for an evaluator of class cls: true of the class
\* itself and of every class derived from it
Isinstance(cls, base) == cls = base \/ <<cls, base>> \in SubclassOf


\* variant: the Opik loop without its elif branch
ScoredEqualsOnly(nb, cls) ==
    IF nb = "opik" THEN Isinstance(cls, "Equals") ELSE TRUE

\* variant: the loop without the type checks, every m is scored
ScoredEveryEvaluator(nb, cls) == TRUE

\* whether the loop body reaches a scoring call for m: the Opik loop scores
\* Equals and Moderation instances and `continue`s past anything else, the
\* DeepEval loop measures every m
Scored(nb, cls) ==
    IF nb = "opik"
    THEN Isinstance(cls, "Equals") \/ Isinstance(cls, "Moderation")
    ELSE TRUE


\* variant: metric_results.setdefault(name, score), the first score stays
StoreScoreFirstWins(d, cls, s) ==
    IF DictHas(d, cls) THEN d ELSE Append(d, <<cls, s>>)

\* metric_results[m.__class__.__name__] = <score>
StoreScore(d, cls, s) == DictSet(d, cls, s)


\* variant: the scoring call wrapped in try/except with `continue`
OnEvaluatorErrorSkip(i) == [pc |-> "loop", ci |-> i + 1, exc |-> "none"]

\* where an exception raised by the scoring call leaves the cell: nothing
\* catches it, the loop is abandoned at the failing evaluator
OnEvaluatorError(i) == [pc |-> "failed", ci |-> i, exc |-> "EvaluationError"]

\* metric_results = {} ; for m in metrics:
CollectStart ==
    /\ cpc = "ready"
    /\ cpc' = "loop"
    /\ ci' = 1
    /\ metric_results' = <<>>
    /\ UNCHANGED <<notebook, metrics, invoked, cexc>>
    /\ UNCHANGED clientVars

\* one iteration whose evaluator is scored and returns the score s
CollectScore(s) ==
    /\ cpc = "loop"
    /\ ci <= Len(metrics)
    /\ Scored(notebook, metrics[ci])
    /\ invoked' = Append(invoked, [idx |-> ci, ok |-> TRUE, val |-> s])
    /\ metric_results' = StoreScore(metric_results, metrics[ci], s)
    /\ ci' = ci + 1
    /\ UNCHANGED <<notebook, metrics, cpc, cexc>>
    /\ UNCHANGED clientVars

\* one iteration whose evaluator is invoked and raises
CollectFail ==
    /\ cpc = "loop"
    /\ ci <= Len(metrics)
    /\ Scored(notebook, metrics[ci])
    /\ invoked' = Append(invoked, [idx |-> ci, ok |-> FALSE, val |-> 0])
    /\ cpc' = OnEvaluatorError(ci).pc
    /\ ci' = OnEvaluatorError(ci).ci
    /\ cexc' = OnEvaluatorError(ci).exc
    /\ UNCHANGED <<notebook, metrics, metric_results>>
    /\ UNCHANGED clientVars

\* one iteration of the Opik loop that takes the `else: continue` branch
CollectSkip ==
    /\ cpc = "loop"
    /\ ci <= Len(metrics)
    /\ ~Scored(notebook, metrics[ci])
    /\ ci' = ci + 1
    /\ UNCHANGED <<notebook, metrics, cpc, metric_results, invoked, cexc>>
    /\ UNCHANGED clientVars

\* the list is exhausted: the cell ends
CollectDone ==
    /\ cpc = "loop"
    /\ ci > Len(metrics)
    /\ cpc' = "done"
    /\ UNCHANGED <<notebook, metrics, ci, metric_results, invoked, cexc>>
    /\ UNCHANGED clientVars

CollectorFinished == cpc \in {"done", "failed"}

----------------------------------------------------------------------------
(* Metrics Reporting Client *)

Kernel == "kernel"
Callers == {Kernel, "thread"}

\* what callers pass to submit as (auth_token, user_id)
Credentials == {<<"tok-A", "user-1">>, <<"Bearer tok-B", "user-2">>}
\* what callers pass to fetch as (report_id, auth_token, user_id)
FetchArguments ==
    {<<"rep-1", "tok-A", "user-1">>, <<"rep-2", "Bearer tok-B", "user-2">>}

NoBody == [t |-> "nobody", v |-> 0]
NoRequest == [method |-> "none", url |-> "", headers |-> <<>>, body |-> NoBody]
NoResponse == [status |-> 0, body |-> NoBody]

IdleFrame ==
    [op |-> "none", pc |-> "idle", token |-> "", uid |-> "", rid |-> "",
     arg |-> <<>>, req |-> NoRequest, resp |-> NoResponse, ret |-> NoValue,
     exc |-> "none", out |-> <<>>]

\* responses of the remote service: status codes and raw bodies
Statuses == {HTTP_OK, 201, 404}

ReportText ==
    [t |-> "braces",
     v |-> << <<"health_index", [t |-> "numtext", v |-> <<67, 0>>]>>,
              <<"stars", [t |-> "numtext", v |-> <<3, 0>>]>> >>]

\* a valid JSON text that repeats a key
RepeatedKeyText ==
    [t |-> "braces",
     v |-> << <<"stars", [t |-> "numtext", v |-> <<1, 0>>]>>,
              <<"detail", [t |-> "quoted", v |-> "Not Found"]>>,
              <<"stars", [t |-> "numtext", v |-> <<3, 0>>]>> >>]

HtmlText == Garbage("<html>Bad Gateway</html>")

\* (a sequence and not a set: the texts are of different shapes)
RawBodies == <<ReportText, RepeatedKeyText, HtmlText>>


\* variant: the token sent as a bearer credential
HeadersBearer(auth_token, user_id) ==
    << <<"Authorization", "Bearer " \o auth_token>>,
       <<"Content-Type", "application/json">>,
       <<"X-User-Id", user_id>> >>

\* variant: the X-User-Id literal of the Opik submit cell left in the function
HeadersUserIdLiteral(auth_token, user_id) ==
    << <<"Authorization", auth_token>>,
       <<"Content-Type", "application/json">>,
       <<"X-User-Id", "C473421_T181751">> >>

\* headers = { "Authorization": ..., "Content-Type": ..., "X-User-Id": ... }
Headers(auth_token, user_id) ==
    << <<"Authorization", auth_token>>,
       <<"Content-Type", "application/json">>,
       <<"X-User-Id", user_id>> >>

\* the literal "provider" of the notebook's metric_metadata
Provider(nb) == IF nb = "opik" THEN "opik" ELSE "deepeval"


\* variant: the key copied from the DeepEval notebook into both
ResultsKeyCopied(nb) == "deepeval"

\* the literal key of metric_data under which the notebook puts metric_results
ResultsKey(nb) == IF nb = "opik" THEN "opik" ELSE "deepeval"


\* variant: one resource id used for both resource_id fields
MetadataOneResourceId(nb) ==
    << <<"application_name", JStr("chat-application")>>,
       <<"version", JStr("1.0.0")>>,
       <<"resource_name", JStr("chat-completion")>>,
       <<"resource_id", JStr("res_123456")>>,
       <<"url", JStr("https://api.example.com/chat")>>,
       <<"provider", JStr(Provider(nb))>>,
       <<"use_case", JStr("transportation")>> >>

\* the literal "metric_metadata" of the notebook's payload
Metadata(nb) ==
    << <<"application_name", JStr("chat-application")>>,
       <<"version", JStr("1.0.0")>>,
       <<"resource_name", JStr("chat-completion")>>,
       <<"resource_id", JStr("R-756")>>,
       <<"url", JStr("https://api.example.com/chat")>>,
       <<"provider", JStr(Provider(nb))>>,
       <<"use_case", JStr("transportation")>> >>


\* variant: the closing brace of metric_data one line early, the results
\* beside metric_data and not inside it
PayloadResultsOutside(nb, results) ==
    JObj(<< <<"metric_metadata", JObj(Metadata(nb))>>,
            <<"metric_data",
              JObj(<< <<"resource_id", JStr("res_123456")>>,
                      <<"resource_name", JStr("chat-completion")>> >>)>>,
            <<ResultsKey(nb), FloatDict(results)>> >>)

\* payload = { "metric_metadata": {...}, "metric_data": {...} }
Payload(nb, results) ==
    JObj(<< <<"metric_metadata", JObj(Metadata(nb))>>,
            <<"metric_data",
              JObj(<< <<"resource_id", JStr("res_123456")>>,
                      <<"resource_name", JStr("chat-completion")>>,
                      <<ResultsKey(nb), FloatDict(results)>> >>)>> >>)

\* url = f"{BASE_URL}/cv/v1/metrics"
SubmitUrl == BASE_URL \o METRICS_PATH


\* variant: endpoint = f"/cv/v1/metrics{report_id}", the slash forgotten
FetchUrlNoSlash(report_id) == BASE_URL \o METRICS_PATH \o report_id

\* url = base_url + f"/cv/v1/metrics/{report_id}"
FetchUrl(report_id) == BASE_URL \o METRICS_PATH \o "/" \o report_id

\* requests.post(url, headers=headers, json=payload)
PostRequest(nb, results, auth_token, user_id) ==
    [method |-> "POST", url |-> SubmitUrl,
     headers |-> Headers(auth_token, user_id),
     body |-> JsonDumps(Payload(nb, results))]

\* requests.get(url, headers=headers)
GetRequest(report_id, auth_token, user_id) ==
    [method |-> "GET", url |-> FetchUrl(report_id),
     headers |-> Headers(auth_token, user_id),
     body |-> NoBody]

\* the kernel runs one thing at a time: a call starts when none is under way
NoCallUnderWay == \A c \in Callers : frame[c].pc = "idle"

\* a call begins: its arguments are bound and its one request goes out
Send(c, op, results, tok, uid, rid, req) ==
    /\ CollectorFinished
    /\ frame[c].pc = "idle"
    /\ ncalls < MaxCalls
    /\ frame' = [frame EXCEPT ![c] =
                   [IdleFrame EXCEPT !.op = op, !.pc = "waiting", !.token = tok,
                                     !.uid = uid, !.rid = rid, !.arg = results,
                                     !.req = req]]
    /\ ncalls' = ncalls + 1
    /\ nrequests' = nrequests + 1
    /\ UNCHANGED <<notebook>>
    /\ UNCHANGED collectorVars

\* post_metrics_to_TRACE_Metric_API(metric_results, auth_token, user_id), up to
\* the request being on the wire
PostSend(c, tok, uid) ==
    /\ notebook = "deepeval"
    /\ Send(c, "post", metric_results, tok, uid, "",
            PostRequest(notebook, metric_results, tok, uid))

\* DeepEval example usage: AUTH_TOKEN = .. ; user_id = .. ; the call
PostExampleCell(tok, uid) ==
    /\ AUTH_TOKEN' = tok
    /\ g_user_id' = uid
    /\ PostSend(Kernel, AUTH_TOKEN', g_user_id')

\* the function called with explicit arguments
PostDirect(tok, uid) ==
    /\ PostSend("thread", tok, uid)
    /\ UNCHANGED <<AUTH_TOKEN, g_user_id>>

\* the Opik submit cell, up to the request being on the wire: AUTH_TOKEN is
\* assigned in the cell, the X-User-Id value is a literal of the cell
OpikSubmitCell(tok, uid) ==
    /\ notebook = "opik"
    /\ AUTH_TOKEN' = tok
    /\ Send(Kernel, "cell", metric_results, tok, uid, "",
            PostRequest(notebook, metric_results, AUTH_TOKEN', uid))
    /\ UNCHANGED g_user_id


\* variant: the function reads the module-level AUTH_TOKEN, not its parameter
FetchSendGlobalToken(c, rid, tok, uid) ==
    Send(c, "fetch", <<>>, tok, uid, rid, GetRequest(rid, AUTH_TOKEN, uid))

\* fetch_report_result(report_id, auth_token, user_id), up to the request
FetchSend(c, rid, tok, uid) ==
    Send(c, "fetch", <<>>, tok, uid, rid, GetRequest(rid, tok, uid))

\* fetch example usage: AUTH_TOKEN = .. ; user_id = .. ; the call
FetchExampleCell(rid, tok, uid) ==
    /\ AUTH_TOKEN' = tok
    /\ g_user_id' = uid
    /\ FetchSend(Kernel, rid, AUTH_TOKEN', uid)

FetchDirect(rid, tok, uid) ==
    /\ FetchSend("thread", rid, tok, uid)
    /\ UNCHANGED <<AUTH_TOKEN, g_user_id>>

clientRest == <<notebook, AUTH_TOKEN, g_user_id, ncalls, nrequests>>

\* the remote answers the request of caller c
RemoteRespond(c, status, body) ==
    /\ frame[c].pc = "waiting"
    /\ frame' = [frame EXCEPT ![c].resp = [status |-> status, body |-> body],
                              ![c].pc = "responded"]
    /\ UNCHANGED clientRest
    /\ UNCHANGED collectorVars


\* variant: the failed request is sent again
OnTransportErrorRetry == [pc |-> "waiting", exc |-> "none", resend |-> 1]

\* variant: requests.post moved inside the try, whose `except Exception`
\* then ends the call normally
OnTransportErrorCaught == [pc |-> "returned", exc |-> "none", resend |-> 0]

\* what a failure below HTTP (DNS, refused connection, timeout) does to the
\* call: requests raises, no handler is in scope, nothing is sent again
OnTransportError == [pc |-> "raised", exc |-> "ConnectionError", resend |-> 0]

\* the request of caller c fails below HTTP
TransportFailure(c) ==
    /\ frame[c].pc = "waiting"
    /\ frame' = [frame EXCEPT ![c].pc = OnTransportError.pc,
                              ![c].exc = OnTransportError.exc]
    /\ nrequests' = nrequests + OnTransportError.resend
    /\ UNCHANGED <<notebook, AUTH_TOKEN, g_user_id, ncalls>>
    /\ UNCHANGED collectorVars

\* print(label, value): one line of the cell's output
Line(label, value) == [label |-> label, val |-> value]
StatusLine(label, status) == Line(label, [t |-> "int", v |-> status])


\* variant: response.json() with no try around it
PostOutcomeNoHandler(resp) ==
    IF JsonValid(resp.body)
    THEN [pc |-> "returned", ret |-> JsonLoads(resp.body), exc |-> "none",
          out |-> <<StatusLine("Status Code:", resp.status),
                    Line("Response JSON:", JsonLoads(resp.body))>>]
    ELSE [pc |-> "raised", ret |-> NoValue, exc |-> "JSONDecodeError",
          out |-> <<StatusLine("Status Code:", resp.status)>>]

\* post_metrics_to_TRACE_Metric_API after requests.post: print the status
\* code; try: print and return response.json(); except Exception: print
\* response.text and return None
PostOutcome(resp) ==
    IF JsonValid(resp.body)
    THEN [pc |-> "returned", ret |-> JsonLoads(resp.body), exc |-> "none",
          out |-> <<StatusLine("Status Code:", resp.status),
                    Line("Response JSON:", JsonLoads(resp.body))>>]
    ELSE [pc |-> "returned", ret |-> PyNone, exc |-> "none",
          out |-> <<StatusLine("Status Code:", resp.status),
                    Line("Response Text:", resp.body)>>]

\* the Opik submit cell after requests.post: print the status code, then
\* print response.json() with no handler around it; a cell has no value
CellOutcome(resp) ==
    IF JsonValid(resp.body)
    THEN [pc |-> "returned", ret |-> NoValue, exc |-> "none",
          out |-> <<StatusLine("Status Code:", resp.status),
                    Line("Response JSON:", JsonLoads(resp.body))>>]
    ELSE [pc |-> "raised", ret |-> NoValue, exc |-> "JSONDecodeError",
          out |-> <<StatusLine("Status Code:", resp.status)>>]


\* variant: the body is parsed before the status code is looked at
FetchOutcomeParseFirst(resp) ==
    IF ~JsonValid(resp.body)
    THEN [pc |-> "raised", ret |-> NoValue, exc |-> "JSONDecodeError",
          out |-> <<>>]
    ELSE IF resp.status = HTTP_OK
    THEN [pc |-> "returned", ret |-> JsonLoads(resp.body), exc |-> "none",
          out |-> <<>>]
    ELSE [pc |-> "returned", ret |-> PyNone, exc |-> "none",
          out |-> <<StatusLine("Failed to fetch report. Status code:",
                               resp.status)>>]

\* variant: the 200 branch parses the body and falls off the end
FetchOutcomeNoReturn(resp) ==
    IF resp.status = HTTP_OK /\ ~JsonValid(resp.body)
    THEN [pc |-> "raised", ret |-> NoValue, exc |-> "JSONDecodeError",
          out |-> <<>>]
    ELSE [pc |-> "returned", ret |-> PyNone, exc |-> "none",
          out |-> IF resp.status = HTTP_OK THEN <<>>
                  ELSE <<StatusLine("Failed to fetch report. Status code:",
                                    resp.status)>>]

\* variant: `if response.ok:` in place of the comparison with 200
FetchOutcomeOk(resp) ==
    IF resp.status < 400
    THEN IF JsonValid(resp.body)
         THEN [pc |-> "returned", ret |-> JsonLoads(resp.body),
               exc |-> "none", out |-> <<>>]
         ELSE [pc |-> "raised", ret |-> NoValue, exc |-> "JSONDecodeError",
               out |-> <<>>]
    ELSE [pc |-> "returned", ret |-> PyNone, exc |-> "none",
          out |-> <<StatusLine("Failed to fetch report. Status code:",
                               resp.status)>>]

\* variant: response.raise_for_status() in place of the else branch
FetchOutcomeRaiseForStatus(resp) ==
    IF resp.status = HTTP_OK
    THEN IF JsonValid(resp.body)
         THEN [pc |-> "returned", ret |-> JsonLoads(resp.body),
               exc |-> "none", out |-> <<>>]
         ELSE [pc |-> "raised", ret |-> NoValue, exc |-> "JSONDecodeError",
               out |-> <<>>]
    ELSE [pc |-> "raised", ret |-> NoValue, exc |-> "HTTPError", out |-> <<>>]

\* fetch_report_result after requests.get: status 200 returns
\* response.json(), anything else prints the status code and returns None
FetchOutcome(resp) ==
    IF resp.status = HTTP_OK
    THEN IF JsonValid(resp.body)
         THEN [pc |-> "returned", ret |-> JsonLoads(resp.body),
               exc |-> "none", out |-> <<>>]
         ELSE [pc |-> "raised", ret |-> NoValue, exc |-> "JSONDecodeError",
               out |-> <<>>]
    ELSE [pc |-> "returned", ret |-> PyNone, exc |-> "none",
          out |-> <<StatusLine("Failed to fetch report. Status code:",
                               resp.status)>>]

Outcome(op, resp) ==
    CASE op = "post" -> PostOutcome(resp)
      [] op = "cell" -> CellOutcome(resp)
      [] op = "fetch" -> FetchOutcome(resp)


\* variant: `response` kept in a module-level name that every call assigns,
\* so the rest of a call reads the response of whichever call assigned last
CompleteSharedResponse(c, op) ==
    /\ frame[c].pc = "responded"
    /\ frame[c].op = op
    /\ \E d \in Callers :
          /\ frame[d].resp.status # NoResponse.status
          /\ LET o == Outcome(op, frame[d].resp)
             IN frame' = [frame EXCEPT ![c].pc = o.pc, ![c].ret = o.ret,
                                       ![c].exc = o.exc, ![c].out = o.out]
    /\ UNCHANGED clientRest
    /\ UNCHANGED collectorVars

\* the rest of the call of caller c, from the response to its return or raise
Complete(c, op) ==
    /\ frame[c].pc = "responded"
    /\ frame[c].op = op
    /\ LET o == Outcome(op, frame[c].resp)
       IN frame' = [frame EXCEPT ![c].pc = o.pc, ![c].ret = o.ret,
                                 ![c].exc = o.exc, ![c].out = o.out]
    /\ UNCHANGED clientRest
    /\ UNCHANGED collectorVars


\* variant: the function empties the mapping once it has the response
\* (metric_results.clear() before the prints)
PostReturnClearsMapping(c) ==
    /\ frame[c].pc = "responded"
    /\ frame[c].op = "post"
    /\ LET o == Outcome("post", frame[c].resp)
       IN frame' = [frame EXCEPT ![c].pc = o.pc, ![c].ret = o.ret,
                                 ![c].exc = o.exc, ![c].out = o.out]
    /\ metric_results' = <<>>
    /\ UNCHANGED clientRest
    /\ UNCHANGED <<metrics, cpc, ci, invoked, cexc>>

PostReturn(c) == Complete(c, "post")
OpikSubmitEnd(c) == Complete(c, "cell")
FetchReturn(c) == Complete(c, "fetch")

\* the caller has taken the result (or the exception): its frame is gone
Finish(c) ==
    /\ frame[c].pc \in {"returned", "raised"}
    /\ frame' = [frame EXCEPT ![c] = IdleFrame]
    /\ UNCHANGED clientRest
    /\ UNCHANGED collectorVars

----------------------------------------------------------------------------
(* The notebooks, run cell by cell *)

Init ==
    /\ notebook \in {"opik", "deepeval"}
    /\ metrics \in ListsUpTo(ClassesOf(notebook), MaxMetrics)
    /\ cpc = "ready"
    /\ ci = 1
    /\ metric_results = <<>>
    /\ invoked = <<>>
    /\ cexc = "none"
    /\ frame = [c \in Callers |-> IdleFrame]
    /\ AUTH_TOKEN = ""
    /\ g_user_id = ""
    /\ ncalls = 0
    /\ nrequests = 0

Next ==
    \/ CollectStart
    \/ \E s \in Scores : CollectScore(s)
    \/ CollectFail
    \/ CollectSkip
    \/ CollectDone
    \/ \E cr \in Credentials : NoCallUnderWay /\ PostExampleCell(cr[1], cr[2])
    \/ \E cr \in Credentials : NoCallUnderWay /\ PostDirect(cr[1], cr[2])
    \/ \E cr \in Credentials : NoCallUnderWay /\ OpikSubmitCell(cr[1], cr[2])
    \/ \E a \in FetchArguments :
          NoCallUnderWay /\ FetchExampleCell(a[1], a[2], a[3])
    \/ \E a \in FetchArguments :
          NoCallUnderWay /\ FetchDirect(a[1], a[2], a[3])
    \/ \E c \in Callers, st \in Statuses, b \in DOMAIN RawBodies :
          RemoteRespond(c, st, RawBodies[b])
    \/ \E c \in Callers : TransportFailure(c)
    \/ \E c \in Callers : PostReturn(c)
    \/ \E c \in Callers : OpikSubmitEnd(c)
    \/ \E c \in Callers : FetchReturn(c)
    \/ \E c \in Callers : Finish(c)

Spec == Init /\ [][Next]_vars

----------------------------------------------------------------------------
(* The client functions called from a second thread while the kernel runs   *)
(* a cell: the calls of the two callers overlap, step by step              *)

\* the list of the notebook's metrics cell that the collector ran
MetricsCell(nb) ==
    IF nb = "opik" THEN <<"Equals", "Moderation">>
    ELSE <<"AnswerRelevancyMetric", "HallucinationMetric">>

\* the collector cell has run, scoring the first evaluator 1.0 and the
\* second 0.0; no call has been made
InitConcurrent ==
    /\ notebook \in {"opik", "deepeval"}
    /\ metrics = MetricsCell(notebook)
    /\ cpc = "done"
    /\ ci = Len(metrics) + 1
    /\ metric_results = << <<metrics[1], 10>>, <<metrics[2], 0>> >>
    /\ invoked = << [idx |-> 1, ok |-> TRUE, val |-> 10],
                    [idx |-> 2, ok |-> TRUE, val |-> 0] >>
    /\ cexc = "none"
    /\ frame = [c \in Callers |-> IdleFrame]
    /\ AUTH_TOKEN = ""
    /\ g_user_id = ""
    /\ ncalls = 0
    /\ nrequests = 0

\* a caller starts a call whenever it is itself idle, whatever the other
\* caller is doing
NextConcurrent ==
    \/ \E cr \in Credentials : PostExampleCell(cr[1], cr[2])
    \/ \E cr \in Credentials : PostDirect(cr[1], cr[2])
    \/ \E cr \in Credentials : OpikSubmitCell(cr[1], cr[2])
    \/ \E a \in FetchArguments : FetchExampleCell(a[1], a[2], a[3])
    \/ \E a \in FetchArguments : FetchDirect(a[1], a[2], a[3])
    \/ \E c \in Callers, st \in Statuses, b \in DOMAIN RawBodies :
          RemoteRespond(c, st, RawBodies[b])
    \/ \E c \in Callers : TransportFailure(c)
    \/ \E c \in Callers : PostReturn(c)
    \/ \E c \in Callers : OpikSubmitEnd(c)
    \/ \E c \in Callers : FetchReturn(c)
    \/ \E c \in Callers : Finish(c)

SpecConcurrent == InitConcurrent /\ [][NextConcurrent]_vars

----------------------------------------------------------------------------
(* The notebook run from top to bottom: the collector cell, the submit     *)
(* cell, the fetch cell; a cell that raises ends the run                   *)


\* variant: the run goes on past a collector cell that raised
CollectorCellEndedOrRaised == cpc \in {"done", "failed"}

\* the run has come past the collector cell: the loop ran to its end
CollectorCellEnded == cpc = "done"

\* the submit cell, the first client cell of the notebook
SubmitCell ==
    /\ CollectorCellEnded
    /\ ncalls = 0
    /\ \E cr \in Credentials :
          \/ PostExampleCell(cr[1], cr[2])
          \/ OpikSubmitCell(cr[1], cr[2])

\* the fetch cell, the cell after the submit cell
FetchCell ==
    /\ CollectorCellEnded
    /\ ncalls = 1
    /\ \E a \in FetchArguments : FetchExampleCell(a[1], a[2], a[3])

\* a cell whose call returned has ended, the run goes on to the next cell;
\* a cell whose call raised is where the run stays
CellEnds ==
    /\ frame[Kernel].pc = "returned"
    /\ Finish(Kernel)

NextPipeline ==
    \/ CollectStart
    \/ \E s \in Scores : CollectScore(s)
    \/ CollectFail
    \/ CollectSkip
    \/ CollectDone
    \/ SubmitCell
    \/ FetchCell
    \/ \E st \in Statuses, b \in DOMAIN RawBodies :
          RemoteRespond(Kernel, st, RawBodies[b])
    \/ TransportFailure(Kernel)
    \/ PostReturn(Kernel)
    \/ OpikSubmitEnd(Kernel)
    \/ FetchReturn(Kernel)
    \/ CellEnds

SpecPipeline == Init /\ [][NextPipeline]_vars

----------------------------------------------------------------------------
(* The Opik collector cell alone, on lists that may also hold an instance   *)
(* of a class derived from Equals                                          *)

OpikEvaluators == OpikClasses \cup {sc[1] : sc \in SubclassOf}

InitCollector ==
    /\ notebook = "opik"
    /\ metrics \in ListsUpTo(OpikEvaluators, MaxMetrics)
    /\ cpc = "ready"
    /\ ci = 1
    /\ metric_results = <<>>
    /\ invoked = <<>>
    /\ cexc = "none"
    /\ frame = [c \in Callers |-> IdleFrame]
    /\ AUTH_TOKEN = ""
    /\ g_user_id = ""
    /\ ncalls = 0
    /\ nrequests = 0

NextCollector ==
    \/ CollectStart
    \/ \E s \in Scores : CollectScore(s)
    \/ CollectFail
    \/ CollectSkip
    \/ CollectDone

SpecCollector == InitCollector /\ [][NextCollector]_vars

----------------------------------------------------------------------------
(* fetch_report_result alone, against a remote that may also answer with   *)
(* the JSON text null                                                      *)

NullText == [t |-> "nulltext", v |-> 0]

FetchBodies == RawBodies \o <<NullText>>

NextFetch ==
    \/ \E a \in FetchArguments :
          NoCallUnderWay /\ FetchExampleCell(a[1], a[2], a[3])
    \/ \E a \in FetchArguments :
          NoCallUnderWay /\ FetchDirect(a[1], a[2], a[3])
    \/ \E c \in Callers, st \in Statuses, b \in DOMAIN FetchBodies :
          RemoteRespond(c, st, FetchBodies[b])
    \/ \E c \in Callers : TransportFailure(c)
    \/ \E c \in Callers : FetchReturn(c)
    \/ \E c \in Callers : Finish(c)

SpecFetch == InitConcurrent /\ [][NextFetch]_vars

----------------------------------------------------------------------------
(* Properties *)

IsSubmit(c) == frame[c].op \in {"post", "cell"}
IsFetch(c) == frame[c].op = "fetch"
Ended(c) == frame[c].pc \in {"returned", "raised"}
HasResponse(c) == frame[c].resp.status # NoResponse.status

C2_FetchNon200ReturnsNone ==
    \A c \in Callers :
        (IsFetch(c) /\ Ended(c) /\ HasResponse(c)
            /\ frame[c].resp.status # HTTP_OK) =>
            /\ frame[c].pc = "returned"
            /\ frame[c].exc = "none"
            /\ frame[c].ret.t = "null"

\* a fetch that got a 404 whose body is no JSON
C2_Witness ==
    \E c \in Callers :
        /\ IsFetch(c) /\ frame[c].pc = "returned"
        /\ frame[c].resp.status = 404
        /\ ~JsonValid(frame[c].resp.body)

\* the document of the body {"health_index": 67, "stars": 3}
ReportDoc == JObj(<< <<"health_index", JNum(670)>>, <<"stars", JNum(30)>> >>)

\* C3: a fetch that received status 200 with a JSON body returns the parse
\* of that body, field for field; for the body {"health_index": 67,
\* "stars": 3} it returns that object.
C3_Fetch200ReturnsBody ==
    \A c \in Callers :
        (IsFetch(c) /\ Ended(c) /\ frame[c].resp.status = HTTP_OK
            /\ JsonValid(frame[c].resp.body)) =>
            /\ frame[c].pc = "returned"
            /\ JsonEq(frame[c].ret, JsonLoads(frame[c].resp.body))
            /\ TextEq(frame[c].resp.body, ReportText) =>
                   JsonEq(frame[c].ret, ReportDoc)

\* a fetch that got 200 with {"health_index": 67, "stars": 3}
C3_Witness ==
    \E c \in Callers :
        /\ IsFetch(c) /\ frame[c].pc = "returned"
        /\ frame[c].resp.status = HTTP_OK
        /\ TextEq(frame[c].resp.body, ReportText)

\* the value a submit would return if it returned the status code together
\* with the body: a pair
ReturnsPair(r, status) == r.t = "pair" /\ r.v[1] = status

\* C4 as stated: every submit that received a response returns the status
\* code together with the parsed JSON body, or together with the raw text
\* when the body is no JSON.
C4_SubmitReturnsStatusAndBody ==
    \A c \in Callers :
        (IsSubmit(c) /\ Ended(c) /\ HasResponse(c)) =>
            /\ frame[c].pc = "returned"
            /\ ReturnsPair(frame[c].ret, frame[c].resp.status)
            /\ IF JsonValid(frame[c].resp.body)
               THEN JsonEq(frame[c].ret.v[2], JsonLoads(frame[c].resp.body))
               ELSE TextEq(frame[c].ret.v[2], frame[c].resp.body)

\* C4, amended: every submit that received a response prints the status
\* code and returns no status code. With a JSON body it prints the parsed
\* body, and the DeepEval function returns it. With a body that is no JSON
\* the DeepEval function prints the raw text and returns None, and the Opik
\* cell raises the decoding error after the status line.
C4_SubmitPrintsStatusReturnsBody ==
    \A c \in Callers :
        (IsSubmit(c) /\ Ended(c) /\ HasResponse(c)) =>
            LET f == frame[c]
                valid == JsonValid(f.resp.body)
            IN /\ Len(f.out) >= 1
               /\ f.out[1] = StatusLine("Status Code:", f.resp.status)
               /\ f.ret.t # "pair"
               /\ valid =>
                     /\ f.pc = "returned" /\ f.exc = "none"
                     /\ Len(f.out) = 2
                     /\ f.out[2].label = "Response JSON:"
                     /\ JsonEq(f.out[2].val, JsonLoads(f.resp.body))
                     /\ f.op = "post" => JsonEq(f.ret, JsonLoads(f.resp.body))
                     /\ f.op = "cell" => f.ret.t = "unset"
               /\ (~valid /\ f.op = "post") =>
                     /\ f.pc = "returned" /\ f.exc = "none"
                     /\ f.ret.t = "null"
                     /\ Len(f.out) = 2
                     /\ f.out[2].label = "Response Text:"
                     /\ TextEq(f.out[2].val, f.resp.body)
               /\ (~valid /\ f.op = "cell") =>
                     /\ f.pc = "raised" /\ f.exc = "JSONDecodeError"
                     /\ Len(f.out) = 1

\* a DeepEval submit answered 404 with a body that is no JSON
C4_Witness ==
    \E c \in Callers :
        /\ frame[c].op = "post" /\ frame[c].pc = "returned"
        /\ frame[c].resp.status = 404
        /\ ~JsonValid(frame[c].resp.body)

\* the values of the header `name` in the request of caller c
HeaderValues(c, name) ==
    {frame[c].req.headers[i][2] :
        i \in {j \in DOMAIN frame[c].req.headers :
                  frame[c].req.headers[j][1] = name}}

\* C5: the request of every submit and every fetch has one Authorization
\* header and its value is the auth_token string of that call, as passed.
C5_AuthorizationVerbatim ==
    \A c \in Callers :
        frame[c].pc # "idle" =>
            HeaderValues(c, "Authorization") = {frame[c].token}

\* a fetch whose token already begins with a scheme word
C5_Witness ==
    \E c \in Callers :
        /\ IsFetch(c) /\ frame[c].pc = "waiting"
        /\ frame[c].token = "Bearer tok-B"

\* C6: as many HTTP requests have been issued as calls were started, in
\* every state: no outcome of a call (a 200, another status, a body that is
\* no JSON, a transport failure) issues a second request.
C6_OneRequestPerCall == nrequests = ncalls

\* two calls were made and the second ended in a transport failure
C6_Witness ==
    /\ ncalls = 2
    /\ \E c \in Callers :
          frame[c].pc = "raised" /\ frame[c].exc = "ConnectionError"

\* the evaluators the loops are written to score
ShouldScore(i) ==
    notebook = "deepeval" \/ metrics[i] \in {"Equals", "Moderation"}

\* the invocation numbers of the evaluator at index i
InvocationsOf(i) == {k \in DOMAIN invoked : invoked[k].idx = i}

\* the last invocation that returned a score for the metric name n
LastScoreOf(n) ==
    invoked[CHOOSE k \in DOMAIN invoked :
               /\ invoked[k].ok /\ metrics[invoked[k].idx] = n
               /\ \A l \in DOMAIN invoked :
                     (invoked[l].ok /\ metrics[invoked[l].idx] = n) => l <= k].val

\* the names under which some invocation returned a score
ScoredNames == {metrics[invoked[k].idx] : k \in {l \in DOMAIN invoked : invoked[l].ok}}

C9_EvaluatorErrorPropagates ==
    /\ \A k \in DOMAIN invoked :
          ~invoked[k].ok =>
              /\ k = Len(invoked)
              /\ cpc = "failed"
              /\ cexc = "EvaluationError"
              /\ ci = invoked[k].idx
              /\ \A l \in DOMAIN invoked : invoked[l].idx <= invoked[k].idx
    /\ cpc = "failed" =>
          /\ Len(invoked) >= 1
          /\ ~invoked[Len(invoked)].ok
          /\ DictKeys(metric_results) = ScoredNames
          /\ \A n \in ScoredNames : DictGet(metric_results, n) = LastScoreOf(n)

\* the first of two evaluators raised
C9_Witness ==
    /\ cpc = "failed"
    /\ Len(metrics) = 2
    /\ Len(invoked) = 1
    /\ metric_results = <<>>

\* the request a call with these arguments sends
RequestOf(nb, f) ==
    IF f.op = "fetch"
    THEN GetRequest(f.rid, f.token, f.uid)
    ELSE PostRequest(nb, f.arg, f.token, f.uid)

SameRequest(r, q) ==
    /\ r.method = q.method
    /\ r.url = q.url
    /\ r.headers = q.headers
    /\ TextEq(r.body, q.body)

\* what each call sends and hands back is decided by its own arguments and
\* the response to it
DependsOnOwnArguments ==
    \A c \in Callers :
        frame[c].pc # "idle" =>
            /\ SameRequest(frame[c].req, RequestOf(notebook, frame[c]))
            /\ (Ended(c) /\ HasResponse(c)) =>
                  LET o == Outcome(frame[c].op, frame[c].resp)
                  IN /\ frame[c].pc = o.pc
                     /\ frame[c].exc = o.exc
                     /\ JsonEq(frame[c].ret, o.ret)

\* C10 as stated: the client holds no credential in its module state, and
\* what each call sends and returns depends only on its own arguments and
\* the response to it.
C10_NoStateNoStoredCredentials ==
    /\ AUTH_TOKEN = ""
    /\ g_user_id = ""
    /\ DependsOnOwnArguments

\* C10, amended: no call reads state that an earlier call left: whatever
\* the module-level AUTH_TOKEN and user_id hold, what each call sends and
\* returns depends only on its own arguments and the response to it. (The
\* cells do keep the token: the Opik submit cell and the example-usage
\* lines assign it to the module-level AUTH_TOKEN, which stays set after
\* the call.)
C10_CallsDependOnOwnArguments == DependsOnOwnArguments

\* a call made while AUTH_TOKEN still holds the token of an earlier call
C10_Witness ==
    \E c \in Callers :
        /\ frame[c].pc = "returned"
        /\ AUTH_TOKEN # ""
        /\ AUTH_TOKEN # frame[c].token

\* two printed outputs are the same lines
SameOutput(a, b) ==
    /\ Len(a) = Len(b)
    /\ \A i \in DOMAIN a :
          /\ a[i].label = b[i].label
          /\ a[i].val.t = b[i].val.t
          /\ IF a[i].val.t \in {"obj", "num", "str", "null"}
             THEN JsonEq(a[i].val, b[i].val)
             ELSE IF a[i].val.t = "int" THEN a[i].val.v = b[i].val.v
             ELSE TextEq(a[i].val, b[i].val)

\* the other caller
Other(c) == CHOOSE d \in Callers : d # c

\* C11: while the calls of the two callers overlap, in every interleaving
\* of their steps, each call has sent the request that its own arguments
\* give, and, once it has ended on a response, has printed, returned or
\* raised what that response alone gives; a call that failed below HTTP
\* raised that failure, whatever the other call received.
C11_ConcurrentCallsDoNotInterfere ==
    \A c \in Callers :
        frame[c].pc # "idle" =>
            /\ SameRequest(frame[c].req, RequestOf(notebook, frame[c]))
            /\ (Ended(c) /\ HasResponse(c)) =>
                  LET o == Outcome(frame[c].op, frame[c].resp)
                  IN /\ frame[c].pc = o.pc
                     /\ frame[c].exc = o.exc
                     /\ JsonEq(frame[c].ret, o.ret)
                     /\ SameOutput(frame[c].out, o.out)
            /\ (Ended(c) /\ ~HasResponse(c)) =>
                  /\ frame[c].pc = "raised"
                  /\ frame[c].exc = "ConnectionError"
                  /\ frame[c].ret.t = "unset"
                  /\ frame[c].out = <<>>

\* two fetches of one report id overlapped: one returned the report of a
\* 200 while the other holds a 404
C11_Witness ==
    \E c \in Callers :
        /\ IsFetch(c) /\ IsFetch(Other(c))
        /\ frame[c].rid = frame[Other(c)].rid
        /\ frame[c].pc = "returned"
        /\ frame[c].resp.status = HTTP_OK
        /\ frame[c].ret.t = "obj"
        /\ frame[Other(c)].pc = "responded"
        /\ frame[Other(c)].resp.status = 404

\* the member names of an object text, one per member, repeats included
MemberNames(x) == [i \in DOMAIN x.v |-> x.v[i][1]]

\* a list of names holds exactly the names of S, each once
ExactlyNames(names, S) ==
    /\ {names[i] : i \in DOMAIN names} = S
    /\ Len(names) = Cardinality(S)

\* the member of an object text under a name it holds once
Member(x, name) == x.v[CHOOSE i \in DOMAIN x.v : x.v[i][1] = name][2]

MetadataRecord(app, rname, rid, provider) ==
    JObj(<< <<"application_name", JStr(app)>>,
            <<"version", JStr("1.0.0")>>,
            <<"resource_name", JStr(rname)>>,
            <<"resource_id", JStr(rid)>>,
            <<"url", JStr("https://api.example.com/chat")>>,
            <<"provider", JStr(provider)>>,
            <<"use_case", JStr("transportation")>> >>)

\* metadata records a caller of submit has for its application
CallerMetadata ==
    {MetadataRecord("chat-application", "chat-completion", "R-756",
                    Provider(notebook)),
     MetadataRecord("summarizer", "summary-run", "R-001", Provider(notebook))}

\* (resource_id, resource_name) pairs a caller of submit has
CallerResources ==
    {<<"res_123456", "chat-completion">>, <<"res_000001", "summary-run">>}

\* the parsed metric_metadata and metric_data of the body of caller c
SentMetadata(c) == DictGet(JsonLoads(frame[c].req.body).v, "metric_metadata")
SentData(c) == DictGet(JsonLoads(frame[c].req.body).v, "metric_data")

\* C13 as stated: whatever metadata record and resource identifiers the
\* caller of a submit has, the body carries them.
C13_PayloadCarriesCallersMetadata ==
    \A c \in Callers :
        IsSubmit(c) =>
            LET md == SentMetadata(c)
                data == SentData(c).v
            IN /\ \A R \in CallerMetadata : JsonEq(md, R)
               /\ \A rs \in CallerResources :
                     /\ DictGet(data, "resource_id").v = rs[1]
                     /\ DictGet(data, "resource_name").v = rs[2]

\* C13, amended: submit takes no metadata and no resource identifiers;
\* the body of every submit, whatever mapping, token and user id it was
\* called with, carries the metadata record written in the notebook
\* (application chat-application, version 1.0.0, resource chat-completion
\* / R-756, the notebook's provider, use case transportation) and the
\* resource_id res_123456 and resource_name chat-completion.
C13_PayloadCarriesNotebookLiterals ==
    \A c \in Callers :
        IsSubmit(c) =>
            LET body == JsonLoads(frame[c].req.body).v
                md == DictGet(body, "metric_metadata")
                data == DictGet(body, "metric_data").v
            IN /\ JsonEq(md,
                         MetadataRecord("chat-application", "chat-completion",
                                        "R-756",
                                        IF notebook = "opik" THEN "opik"
                                        ELSE "deepeval"))
               /\ Len(md.v) = 7
               /\ DictGet(data, "resource_id").t = "str"
               /\ DictGet(data, "resource_id").v = "res_123456"
               /\ DictGet(data, "resource_name").t = "str"
               /\ DictGet(data, "resource_name").v = "chat-completion"

\* a DeepEval submit called from the thread with the second credentials
C13_Witness ==
    /\ frame["thread"].op = "post"
    /\ frame["thread"].pc = "waiting"
    /\ frame["thread"].token = "Bearer tok-B"
    /\ metric_results # <<>>

\* the header names of the request of caller c, one per header
HeaderNames(c) ==
    [i \in DOMAIN frame[c].req.headers |-> frame[c].req.headers[i][1]]

\* the POST of a submit has exactly the headers Authorization (the token),
\* Content-Type: application/json and X-User-Id (the user id)
SubmitHeadersExact(c) ==
    /\ ExactlyNames(HeaderNames(c),
                    {"Authorization", "Content-Type", "X-User-Id"})
    /\ HeaderValues(c, "Authorization") = {frame[c].token}
    /\ HeaderValues(c, "Content-Type") = {"application/json"}
    /\ HeaderValues(c, "X-User-Id") = {frame[c].uid}

C15_MethodAndUrl ==
    \A c \in Callers :
        /\ IsSubmit(c) =>
              /\ frame[c].req.method = "POST"
              /\ frame[c].req.url = "https://api.cognitiveview.com/cv/v1/metrics"
        /\ IsFetch(c) =>
              /\ frame[c].req.method = "GET"
              /\ frame[c].req.url =
                    "https://api.cognitiveview.com/cv/v1/metrics" \o "/"
                        \o frame[c].rid
              /\ frame[c].req.url # "https://api.cognitiveview.com/cv/v1/metrics"
              /\ frame[c].rid = "rep-1" =>
                    frame[c].req.url =
                        "https://api.cognitiveview.com/cv/v1/metrics/rep-1"

\* the second call of a DeepEval run is a fetch of rep-1
C15_Witness ==
    /\ notebook = "deepeval"
    /\ ncalls = 2
    /\ \E c \in Callers :
          /\ IsFetch(c) /\ frame[c].pc = "waiting"
          /\ frame[c].rid = "rep-1"

\* C16: a submit or a fetch whose request failed below HTTP ends by
\* raising that failure: it does not return, has no return value (no None
\* either), has printed nothing, and no second request was issued for it.
C16_TransportFailurePropagates ==
    /\ \A c \in Callers :
          (frame[c].pc \notin {"idle", "waiting"} /\ ~HasResponse(c)) =>
              /\ frame[c].pc = "raised"
              /\ frame[c].exc = "ConnectionError"
              /\ frame[c].ret.t = "unset"
              /\ frame[c].out = <<>>
    /\ \A c \in Callers :
          frame[c].exc = "ConnectionError" =>
              /\ frame[c].pc = "raised"
              /\ ~HasResponse(c)
    /\ nrequests <= ncalls

\* the request of a DeepEval submit failed below HTTP
C16_Witness ==
    \E c \in Callers :
        /\ frame[c].op = "post"
        /\ frame[c].pc = "raised"
        /\ frame[c].exc = "ConnectionError"
        /\ nrequests = 1

\* the call of caller c ended on a response whose body is no JSON, where the
\* code goes on to parse it: a submit at any status, a fetch at status 200
UndecodableBody(c) ==
    /\ Ended(c) /\ HasResponse(c)
    /\ ~JsonValid(frame[c].resp.body)
    /\ IsSubmit(c) \/ (IsFetch(c) /\ frame[c].resp.status = HTTP_OK)

\* the output of caller c has a line that shows the raw text of the body
ShowsRawText(c) ==
    \E i \in DOMAIN frame[c].out :
        /\ frame[c].out[i].val.t = frame[c].resp.body.t
        /\ TextEq(frame[c].out[i].val, frame[c].resp.body)

\* C17: a submit (at any status) or a fetch at status 200 whose response
\* body is no JSON shows the caller the raw text and ends without a
\* decoding exception.
C17_DecodeErrorShowsRawText ==
    \A c \in Callers :
        UndecodableBody(c) =>
            /\ frame[c].pc = "returned"
            /\ frame[c].exc = "none"
            /\ ShowsRawText(c)

\* the call of caller c ended in an error outcome: a transport failure, a
\* status other than 200, or a body that is no JSON where it is parsed
ErrorOutcome(c) ==
    /\ Ended(c)
    /\ \/ ~HasResponse(c)
       \/ frame[c].resp.status # HTTP_OK
       \/ UndecodableBody(c)

\* the call of caller c returned None
ReturnedNone(c) == frame[c].pc = "returned" /\ frame[c].ret.t = "null"

CompleteMapping(d) ==
    /\ \A k \in DOMAIN invoked : invoked[k].ok
    /\ \A i \in DOMAIN metrics :
          ShouldScore(i) => InvocationsOf(i) # {}
    /\ DictKeys(d) = ScoredNames
    /\ \A n \in ScoredNames : DictGet(d, n) = LastScoreOf(n)

\* the mapping in the body of the submit of caller c
SentMapping(c) ==
    AsFloatDict(DictGet(SentData(c).v, Provider(notebook)))

\* a submit is under way only after the collector ran through the whole
\* list, and its body carries the complete mapping
SubmitAfterCollector ==
    IsSubmit(Kernel) =>
        /\ cpc = "done"
        /\ ci = Len(metrics) + 1
        /\ CompleteMapping(SentMapping(Kernel))
        /\ DictEq(SentMapping(Kernel), metric_results)

\* the first call of the run is the submit and the second the fetch; the
\* run leaves a call only when the call returned
FetchAfterSubmitReturned ==
    /\ (frame[Kernel].pc = "idle" /\ frame'[Kernel].pc # "idle") =>
          /\ ncalls = 0 => IsSubmit(Kernel)'
          /\ IsSubmit(Kernel)' => ncalls = 0
          /\ IsFetch(Kernel)' => (ncalls = 1 /\ cpc = "done")
    /\ (frame[Kernel].pc # "idle" /\ frame'[Kernel].pc = "idle") =>
          frame[Kernel].pc = "returned"
    /\ frame[Kernel].pc = "raised" => frame'[Kernel].pc = "raised"

\* C19: in a run of the notebook from top to bottom the POST is issued
\* only after the collector has been through every evaluator of the list,
\* and its body carries the complete mapping; the GET is issued only as
\* the call after the POST, and only when the POST has returned.
C19_PipelineOrder ==
    /\ []SubmitAfterCollector
    /\ [][FetchAfterSubmitReturned]_vars

\* the GET of the run is on the wire, after a submit of two scores
C19_Witness ==
    /\ IsFetch(Kernel)
    /\ frame[Kernel].pc = "waiting"
    /\ ncalls = 2
    /\ Len(metric_results) = 2

\* C20: while a submit is under way and after it has ended, whatever the
\* response (a 200, another status, a body that is no JSON, a transport
\* failure), the caller's mapping holds the keys and scores it held when
\* the call was made, in the same number.
C20_SubmitLeavesMappingUnchanged ==
    \A c \in Callers :
        IsSubmit(c) =>
            /\ DictEq(metric_results, frame[c].arg)
            /\ Len(metric_results) = Len(frame[c].arg)

\* a DeepEval submit of two scores has ended on a 404
C20_Witness ==
    \E c \in Callers :
        /\ frame[c].op = "post"
        /\ frame[c].pc = "returned"
        /\ frame[c].resp.status = 404
        /\ Len(frame[c].arg) = 2

\* the evaluator at index i is an Equals or a Moderation instance
EqualsOrModeration(i) ==
    Isinstance(metrics[i], "Equals") \/ Isinstance(metrics[i], "Moderation")

\* the Opik loop invokes no evaluator that is neither an Equals nor a
\* Moderation instance, passes over it with no error, and goes on to the
\* evaluators after it
SkipsOtherEvaluators ==
    /\ \A k \in DOMAIN invoked : EqualsOrModeration(invoked[k].idx)
    /\ cpc = "failed" => EqualsOrModeration(ci)
    /\ cpc = "done" =>
          \A i \in DOMAIN metrics :
              EqualsOrModeration(i) => InvocationsOf(i) # {}

C22_NoneIffNot200 ==
    \A c \in Callers :
        (IsFetch(c) /\ Ended(c) /\ HasResponse(c)) =>
            (ReturnedNone(c) <=> frame[c].resp.status # HTTP_OK)

\* C22, amended: a fetch that received a response with a status that is
\* not 200 returned None, after printing the status code. A fetch that
\* returned None received either a status that is not 200, or status 200
\* with the JSON text null as body, which it parsed and returned with
\* nothing printed. On status 200 with any other JSON body it returned a
\* value that is not None.
C22_NoneOnNot200OrNullBody ==
    \A c \in Callers :
        (IsFetch(c) /\ Ended(c) /\ HasResponse(c)) =>
            LET f == frame[c]
            IN /\ f.resp.status # HTTP_OK =>
                     /\ ReturnedNone(c)
                     /\ Len(f.out) = 1
               /\ ReturnedNone(c) =>
                     \/ f.resp.status # HTTP_OK
                     \/ f.resp.body.t = "nulltext" /\ f.out = <<>>
               /\ (f.resp.status = HTTP_OK /\ f.resp.body.t = "nulltext") =>
                     ReturnedNone(c)
               /\ (f.resp.status = HTTP_OK /\ JsonValid(f.resp.body)
                      /\ f.resp.body.t # "nulltext") =>
                     f.pc = "returned" /\ f.ret.t # "null"

\* a fetch answered 200 with the body null returned None
C22_Witness ==
    \E c \in Callers :
        /\ IsFetch(c)
        /\ frame[c].resp.status = HTTP_OK
        /\ frame[c].resp.body.t = "nulltext"
        /\ ReturnedNone(c)

====
